---- MODULE Spec2Model ----
(***************************************************************************)
(* A model of the CRM GraphQL layer: crm/schema.py (the four mutations and *)
(* the validation helpers) and crm/filters.py (ProductFilter).             *)
(*                                                                         *)
(* The store is the relational database behind the Django ORM: one table   *)
(* per entity plus the order/product join table.  Every mutation is one    *)
(* action (one request at a time); the response of the latest request is   *)
(* kept in `last`.  Strings that the code inspects character by character  *)
(* (phones, product names) are sequences of one-character strings.         *)
(* Python's None is the empty set, a present value v is {v}.               *)
(***************************************************************************)
EXTENDS Integers, Sequences, FiniteSets, TLC

VARIABLES customers, products, orders, order_products, last

vars == <<customers, products, orders, order_products, last>>

store == <<customers, products, orders, order_products>>

-----------------------------------------------------------------------------
(* Optional values *)

None == {}

Some(v) == {v}

Val(o) == CHOOSE v \in o : TRUE

Range(s) == {s[i] : i \in 1..Len(s)}

-----------------------------------------------------------------------------
(* Bounds of the model *)

MaxBulk == 3

MaxProducts == 2

MaxOrders == 2

MaxIds == 2

MaxSupplied == 2

-----------------------------------------------------------------------------
(* validate_phone_format: the pattern ^\+?1?\d{9,15}$|^\d{3}-\d{3}-\d{4}$  *)
(* applied with re.match.                                                   *)

MinDigits == 9

MaxDigits == 15

Digits == {"0", "1", "2", "3", "4", "5", "6", "7", "8", "9"}

AllDigits(s) == \A i \in 1..Len(s) : s[i] \in Digits

(* `$` of Python's re matches at the end of the string and also just       *)
(* before a newline that ends the string: the candidate bodies of s.       *)
DollarBodies(s) ==
    {s} \cup (IF Len(s) > 0 /\ s[Len(s)] = "\n"
              THEN {SubSeq(s, 1, Len(s) - 1)} ELSE {})

(* ^\+?1?\d{9,15}$ *)
MatchInternational(s) ==
    \E b \in DollarBodies(s) :
      \E plus \in {0, 1} :
        \E one \in {0, 1} :
          /\ plus + one <= Len(b)
          /\ plus = 1 => b[1] = "+"
          /\ one = 1 => b[plus + 1] = "1"
          /\ LET rest == SubSeq(b, plus + one + 1, Len(b))
             IN  /\ Len(rest) >= MinDigits
                 /\ Len(rest) <= MaxDigits
                 /\ AllDigits(rest)

(* ^\d{3}-\d{3}-\d{4}$ *)
MatchDashed(s) ==
    \E b \in DollarBodies(s) :
      /\ Len(b) = 12
      /\ AllDigits(SubSeq(b, 1, 3))
      /\ b[4] = "-"
      /\ AllDigits(SubSeq(b, 5, 7))
      /\ b[8] = "-"
      /\ AllDigits(SubSeq(b, 9, 12))

PhonePatternMatches(s) == MatchInternational(s) \/ MatchDashed(s)

(* Python truthiness of an optional string: None and "" are falsy. *)
Truthy(phone) == phone /= None /\ Val(phone) /= <<>>

(* validate_phone_format(phone): TRUE when it raises ValidationError. *)
validate_phone_format(phone) ==
    Truthy(phone) /\ ~PhonePatternMatches(Val(phone))

-----------------------------------------------------------------------------
(* validate_email_unique(email): TRUE when it raises ValidationError.      *)
(* Customer.objects.filter(email=email).exists() over the rows visible to  *)
(* the caller, the rows written earlier in an open transaction included.   *)

EmailNeverTaken(rows, email) == FALSE

validate_email_unique(rows, email) ==
    \E i \in 1..Len(rows) : rows[i].email = email

(* Customer.objects.create(name, email, phone if phone else None) *)
NewCustomer(rows, input) ==
    [id    |-> Len(rows) + 1,
     name  |-> input.name,
     email |-> input.email,
     phone |-> IF Truthy(input.phone) THEN input.phone ELSE None]

-----------------------------------------------------------------------------
(* transaction.atomic(): what the block leaves in the store when it exits. *)
(* The block is rolled back when an exception leaves it, and also when a   *)
(* database error was caught inside it: Model.save marks the transaction   *)
(* for rollback (needs_rollback) and the exit then rolls it back.          *)

AtomicNeverRollsBack(before, now, raised, needs_rollback) == now

AtomicExit(before, now, raised, needs_rollback) ==
    IF raised \/ needs_rollback THEN before ELSE now

-----------------------------------------------------------------------------
(* Messages *)

EmailExists == "Email already exists"

InvalidPhone == "Invalid phone number format"

StorageError == "database error"

BrokenTransaction == "An error occurred in the current transaction"

-----------------------------------------------------------------------------
(* CreateCustomer.mutate.  `fault` is the storage collaborator failing the *)
(* INSERT with an unexpected error.                                         *)

CreateCustomerInsertsFirst(rows, input, fault) ==
    IF validate_email_unique(rows, input.email)
    THEN [success |-> FALSE, customer |-> None, errors |-> <<EmailExists>>,
          rows |-> rows]
    ELSE IF Truthy(input.phone) /\ validate_phone_format(input.phone)
    THEN [success |-> FALSE, customer |-> None, errors |-> <<InvalidPhone>>,
          rows |-> Append(rows, NewCustomer(rows, input))]
    ELSE IF fault
    THEN [success |-> FALSE, customer |-> None, errors |-> <<StorageError>>,
          rows |-> rows]
    ELSE [success |-> TRUE, customer |-> Some(NewCustomer(rows, input)),
          errors |-> <<>>,
          rows |-> Append(rows, NewCustomer(rows, input))]

CreateCustomerResult(rows, input, fault) ==
    IF validate_email_unique(rows, input.email)
    THEN [success |-> FALSE, customer |-> None, errors |-> <<EmailExists>>,
          rows |-> rows]
    ELSE IF Truthy(input.phone) /\ validate_phone_format(input.phone)
    THEN [success |-> FALSE, customer |-> None, errors |-> <<InvalidPhone>>,
          rows |-> rows]
    ELSE IF fault
    THEN [success |-> FALSE, customer |-> None, errors |-> <<StorageError>>,
          rows |-> rows]
    ELSE [success |-> TRUE, customer |-> Some(NewCustomer(rows, input)),
          errors |-> <<>>,
          rows |-> Append(rows, NewCustomer(rows, input))]

CreateCustomer(input, fault) ==
    LET r == CreateCustomerResult(customers, input, fault)
    IN  /\ customers' = r.rows
        /\ last' = [op |-> "CreateCustomer", input |-> input, fault |-> fault,
                    success |-> r.success, customer |-> r.customer,
                    errors |-> r.errors]
        /\ UNCHANGED <<products, orders, order_products>>

-----------------------------------------------------------------------------
(* BulkCreateCustomers.mutate.  The loop body for item i (1-based), on the *)
(* accumulator [rows, created, errors, needs_rollback]; faultAt is the     *)
(* item whose INSERT the storage collaborator fails (0: none).  Once the   *)
(* transaction is marked for rollback every further query raises           *)
(* TransactionManagementError, which the loop's `except Exception` takes.  *)

BulkErrorZeroBased(i, email, msg) == [index |-> i - 1, email |-> email, msg |-> msg]

BulkError(i, email, msg) == [index |-> i, email |-> email, msg |-> msg]

BulkItem(acc, i, item, faultAt) ==
    IF acc.needs_rollback
    THEN [acc EXCEPT !.errors =
            Append(@, BulkError(i, item.email, BrokenTransaction))]
    ELSE IF validate_email_unique(acc.rows, item.email)
    THEN [acc EXCEPT !.errors =
            Append(@, BulkError(i, item.email, EmailExists))]
    ELSE IF Truthy(item.phone) /\ validate_phone_format(item.phone)
    THEN [acc EXCEPT !.errors =
            Append(@, BulkError(i, item.email, InvalidPhone))]
    ELSE IF faultAt = i
    THEN [acc EXCEPT !.errors =
            Append(@, BulkError(i, item.email, StorageError)),
                     !.needs_rollback = TRUE]
    ELSE [acc EXCEPT !.rows = Append(@, NewCustomer(acc.rows, item)),
                     !.created = Append(@, NewCustomer(acc.rows, item))]

RECURSIVE BulkLoop(_, _, _, _)
BulkLoop(acc, i, input, faultAt) ==
    IF i > Len(input) THEN acc
    ELSE BulkLoop(BulkItem(acc, i, input[i], faultAt), i + 1, input, faultAt)

BulkCreateCustomersResult(rows, input, faultAt) ==
    LET acc == BulkLoop([rows |-> rows, created |-> <<>>, errors |-> <<>>,
                         needs_rollback |-> FALSE], 1, input, faultAt)
    IN  [customers     |-> acc.created,
         errors        |-> acc.errors,
         success_count |-> Len(acc.created),
         error_count   |-> Len(acc.errors),
         rows          |-> AtomicExit(rows, acc.rows, FALSE,
                                      acc.needs_rollback)]

BulkCreateCustomers(input, faultAt) ==
    LET r == BulkCreateCustomersResult(customers, input, faultAt)
    IN  /\ customers' = r.rows
        /\ last' = [op |-> "BulkCreateCustomers", input |-> input,
                    faultAt |-> faultAt, customers |-> r.customers,
                    errors |-> r.errors, success_count |-> r.success_count,
                    error_count |-> r.error_count]
        /\ UNCHANGED <<products, orders, order_products>>

-----------------------------------------------------------------------------
(* ProductInput: stock is optional with default_value=0.  A raw stock is   *)
(* [given |-> FALSE] when the field is omitted, else [given |-> TRUE,      *)
(* value |-> None or {n}] (an explicit null is not replaced by the         *)
(* default).                                                               *)

DefaultStock == 0

Omitted == [given |-> FALSE, value |-> None]

Given(v) == [given |-> TRUE, value |-> v]

ProductInput(raw) ==
    [name  |-> raw.name,
     price |-> raw.price,
     stock |-> IF raw.stock.given THEN raw.stock.value ELSE Some(DefaultStock)]

PricePositive == "Price must be positive"

StockNegative == "Stock cannot be negative"

NoneCompare == "'<' not supported between instances of 'NoneType' and 'int'"

(* CreateProduct.mutate *)
PriceRejectedNegativeOnly(price) == price < 0

PriceRejected(price) == price <= 0

StockRejected(stock) == stock < 0

NewProduct(rows, input) ==
    [id    |-> Len(rows) + 1,
     name  |-> input.name,
     price |-> input.price,
     stock |-> Val(input.stock)]

CreateProductResult(rows, input, fault) ==
    IF PriceRejected(input.price)
    THEN [success |-> FALSE, product |-> None, errors |-> <<PricePositive>>,
          rows |-> rows]
    ELSE IF input.stock = None
    THEN [success |-> FALSE, product |-> None, errors |-> <<NoneCompare>>,
          rows |-> rows]
    ELSE IF StockRejected(Val(input.stock))
    THEN [success |-> FALSE, product |-> None, errors |-> <<StockNegative>>,
          rows |-> rows]
    ELSE IF fault
    THEN [success |-> FALSE, product |-> None, errors |-> <<StorageError>>,
          rows |-> rows]
    ELSE [success |-> TRUE, product |-> Some(NewProduct(rows, input)),
          errors |-> <<>>, rows |-> Append(rows, NewProduct(rows, input))]

CreateProduct(raw, fault) ==
    LET r == CreateProductResult(products, ProductInput(raw), fault)
    IN  /\ products' = r.rows
        /\ last' = [op |-> "CreateProduct", input |-> raw, fault |-> fault,
                    success |-> r.success, product |-> r.product,
                    errors |-> r.errors]
        /\ UNCHANGED <<customers, orders, order_products>>

-----------------------------------------------------------------------------
(* CreateOrder.mutate *)

CustomerNotFound == "Customer not found"

NoProductSelected == "At least one product must be selected"

ProductsNotFound == "One or more products not found"

(* Product.objects.filter(id__in=product_ids): the stored products whose   *)
(* id occurs in the list, each once.                                       *)
ProductsIn(rows, product_ids) ==
    {p \in 1..Len(rows) : rows[p].id \in Range(product_ids)}

RECURSIVE SumPrices(_, _)
SumPrices(rows, ids) ==
    IF ids = {} THEN 0
    ELSE LET p == CHOOSE x \in ids : TRUE
         IN  rows[p].price + SumPrices(rows, ids \ {p})

(* sum(product.price for product in products) *)
TotalOfFirstOnly(rows, found) ==
    IF found = {} THEN 0 ELSE rows[CHOOSE x \in found : TRUE].price

TotalAmount(rows, found) == SumPrices(rows, found)

(* The body of the `with transaction.atomic()` block: the order row is     *)
(* inserted (its total not yet assigned, 0 here), the products are linked, *)
(* the total is saved.  `fault` names the statement the storage            *)
(* collaborator fails: "create", "set", "save" or "none".  The block's     *)
(* value is what the store holds when the block is left.                   *)
OrderBlock(os, links, customer_id, found, total, fault) ==
    LET oid     == Len(os) + 1
        created == [orders |-> Append(os, [id |-> oid,
                                           customer |-> customer_id,
                                           total_amount |-> 0]),
                    links  |-> links]
        linked  == [created EXCEPT !.links = @ \cup {<<oid, p>> : p \in found}]
        saved   == [linked EXCEPT !.orders[oid].total_amount = total]
    IN  CASE fault = "create" -> [orders |-> os, links |-> links]
          [] fault = "set"    -> created
          [] fault = "save"   -> linked
          [] OTHER            -> saved

CreateOrderResult(cs, ps, os, links, input, fault) ==
    LET found == ProductsIn(ps, input.product_ids)
        before == [orders |-> os, links |-> links]
    IN  IF ~(\E c \in 1..Len(cs) : cs[c].id = input.customer_id)
        THEN [success |-> FALSE, order |-> None,
              errors |-> <<CustomerNotFound>>, db |-> before]
        ELSE IF Len(input.product_ids) = 0
        THEN [success |-> FALSE, order |-> None,
              errors |-> <<NoProductSelected>>, db |-> before]
        ELSE IF Cardinality(found) /= Len(input.product_ids)
        THEN [success |-> FALSE, order |-> None,
              errors |-> <<ProductsNotFound>>, db |-> before]
        ELSE LET now == OrderBlock(os, links, input.customer_id, found,
                                   TotalAmount(ps, found), fault)
                 db  == AtomicExit(before, now, fault /= "none", FALSE)
             IN  IF fault /= "none"
                 THEN [success |-> FALSE, order |-> None,
                       errors |-> <<StorageError>>, db |-> db]
                 ELSE [success |-> TRUE,
                       order |-> Some(db.orders[Len(os) + 1]),
                       errors |-> <<>>, db |-> db]

CreateOrder(input, fault) ==
    LET r == CreateOrderResult(customers, products, orders, order_products,
                               input, fault)
    IN  /\ orders' = r.db.orders
        /\ order_products' = r.db.links
        /\ last' = [op |-> "CreateOrder", input |-> input, fault |-> fault,
                    success |-> r.success, order |-> r.order,
                    errors |-> r.errors]
        /\ UNCHANGED <<customers, products>>

-----------------------------------------------------------------------------
(* ProductFilter (crm/filters.py): the declared filters, applied one after *)
(* the other to the queryset, each narrowing it.  A queryset is the        *)
(* sequence of matching rows in id order.  The filters that Meta.fields    *)
(* generates besides the declared ones (price exact, the double-underscore *)
(* spellings) are not modelled.                                            *)

UpperCase == <<"A", "B", "C", "D", "E", "F", "G", "H", "I", "J", "K", "L", "M",
               "N", "O", "P", "Q", "R", "S", "T", "U", "V", "W", "X", "Y", "Z">>

LowerCase == <<"a", "b", "c", "d", "e", "f", "g", "h", "i", "j", "k", "l", "m",
               "n", "o", "p", "q", "r", "s", "t", "u", "v", "w", "x", "y", "z">>

LowerChar(c) ==
    IF \E i \in 1..Len(UpperCase) : UpperCase[i] = c
    THEN LowerCase[CHOOSE i \in 1..Len(UpperCase) : UpperCase[i] = c]
    ELSE c

Lower(s) == [i \in 1..Len(s) |-> LowerChar(s[i])]

Contains(hay, needle) ==
    \E i \in 0..(Len(hay) - Len(needle)) :
        SubSeq(hay, i + 1, i + Len(needle)) = needle

(* lookup_expr='icontains' *)
IContains(hay, needle) == Contains(Lower(hay), Lower(needle))

(* CharFilter(field_name, lookup_expr='icontains'); None and "" are       *)
(* django-filter's EMPTY_VALUES and leave the queryset alone.              *)
CharFilterIContains(qs, field, value) ==
    IF value = None \/ Val(value) = <<>> THEN qs
    ELSE LET Test(row) == IContains(row[field], Val(value))
         IN  SelectSeq(qs, Test)

(* NumberFilter(field_name, lookup_expr) *)
NumberFilterGte(qs, field, value) ==
    IF value = None THEN qs
    ELSE LET Test(row) == row[field] >= Val(value) IN SelectSeq(qs, Test)

NumberFilterLte(qs, field, value) ==
    IF value = None THEN qs
    ELSE LET Test(row) == row[field] <= Val(value) IN SelectSeq(qs, Test)

NumberFilterExact(qs, field, value) ==
    IF value = None THEN qs
    ELSE LET Test(row) == row[field] = Val(value) IN SelectSeq(qs, Test)

LowStockThreshold == 10

(* BooleanFilter(method='filter_low_stock') *)
filter_low_stock_lte(qs, value) ==
    IF value = None THEN qs
    ELSE IF Val(value)
         THEN LET Test(row) == row.stock <= LowStockThreshold
              IN  SelectSeq(qs, Test)
         ELSE qs

filter_low_stock(qs, value) ==
    IF value = None THEN qs
    ELSE IF Val(value)
         THEN LET Test(row) == row.stock < LowStockThreshold
              IN  SelectSeq(qs, Test)
         ELSE qs

ProductFilterNames ==
    <<"name", "name_icontains", "price_gte", "price_lte",
      "stock", "stock_gte", "stock_lte", "low_stock">>

ProductFilterApply(qs, f, value) ==
    CASE f = "name"           -> CharFilterIContains(qs, "name", value)
      [] f = "name_icontains" -> CharFilterIContains(qs, "name", value)
      [] f = "price_gte"      -> NumberFilterGte(qs, "price", value)
      [] f = "price_lte"      -> NumberFilterLte(qs, "price", value)
      [] f = "stock"          -> NumberFilterExact(qs, "stock", value)
      [] f = "stock_gte"      -> NumberFilterGte(qs, "stock", value)
      [] f = "stock_lte"      -> NumberFilterLte(qs, "stock", value)
      [] f = "low_stock"      -> filter_low_stock(qs, value)

(* FilterSet.filter_queryset: every declared filter in turn. *)
RECURSIVE ProductFilter(_, _, _)
ProductFilter(qs, params, k) ==
    IF k > Len(ProductFilterNames) THEN qs
    ELSE ProductFilter(
           ProductFilterApply(qs, ProductFilterNames[k],
                              params[ProductFilterNames[k]]),
           params, k + 1)

(* Query.all_products *)
all_products(params) ==
    /\ last' = [op |-> "all_products", params |-> params,
                result |-> ProductFilter(products, params, 1)]
    /\ UNCHANGED <<customers, products, orders, order_products>>

-----------------------------------------------------------------------------
(* The schema executes one operation at a time and returns its response:   *)
(* a handler starts when no response is pending, and Respond hands the     *)
(* pending response to the caller.                                         *)

Idle == [op |-> "none"]

Ready == last = Idle

Respond ==
    /\ last /= Idle
    /\ last' = Idle
    /\ UNCHANGED <<customers, products, orders, order_products>>

Init ==
    /\ customers = <<>>
    /\ products = <<>>
    /\ orders = <<>>
    /\ order_products = {}
    /\ last = Idle

-----------------------------------------------------------------------------
(* Inputs *)

SeqsUpTo(S, n) == UNION {[1..k -> S] : k \in 0..n}

Emails == {"ann@example.com", "bob@example.com"}

CustomerNames == {"Ann"}

Phone_Short      == <<"5", "5", "5", "-", "1", "2", "3", "4">>
Phone_Plus       == <<"+", "1", "5", "5", "5", "1", "2", "3", "4", "5", "6", "7">>
Phone_Dashed     == <<"5", "5", "5", "-", "1", "2", "3", "-", "4", "5", "6", "7">>
Phone_NoPlus     == <<"5", "5", "5", "1", "2", "3", "4", "5", "6", "7">>
Phone_Newline    == <<"5", "5", "5", "-", "1", "2", "3", "-", "4", "5", "6", "7", "\n">>
Phone_Plus8      == <<"+", "1", "2", "3", "4", "5", "6", "7", "8">>
Phone_Plus16     == <<"+", "1", "2", "3", "4", "5", "6", "7", "8", "9", "0",
                      "1", "2", "3", "4", "5", "6">>
Phone_Plus17     == <<"+", "1", "2", "3", "4", "5", "6", "7", "8", "9", "0",
                      "1", "2", "3", "4", "5", "6", "7">>
Phone_Letters    == <<"5", "5", "5", "-", "1", "2", "3", "-", "4", "5", "6", "a">>

Phones ==
    {None, Some(<<>>), Some(Phone_Short), Some(Phone_Plus), Some(Phone_Dashed),
     Some(Phone_NoPlus), Some(Phone_Newline), Some(Phone_Plus8),
     Some(Phone_Plus16), Some(Phone_Plus17), Some(Phone_Letters)}

BulkPhones == {Some(<<>>), Some(Phone_Short), Some(Phone_Dashed)}

FewPhones == {None, Some(Phone_Short)}

FewEmails == {"ann@example.com"}

CustomerInputs(emails, phones) ==
    [name : CustomerNames, email : emails, phone : phones]

Name_ab == <<"a", "b">>

Name_B == <<"B">>

ProductNames == {Name_ab, Name_B}

Prices == {-500, 0, 550, 1000}

Stocks == {Omitted, Given(None), Given(Some(-1)), Given(Some(0)),
           Given(Some(9)), Given(Some(10))}

ProductInputs == [name : ProductNames, price : Prices, stock : Stocks]

FewProductInputs ==
    [name : {Name_ab}, price : {0, 550, 1000},
     stock : {Omitted, Given(Some(-1))}]

OrderFaults == {"none", "create", "set", "save"}

OrderInputs ==
    [customer_id : 1..(Len(customers) + 1),
     product_ids : SeqsUpTo(1..(Len(products) + 1), MaxIds)]

ParamValues(f) ==
    CASE f = "name"           -> {Some(<<"b">>), Some(<<"A">>), Some(<<>>)}
      [] f = "name_icontains" -> {Some(<<"B">>)}
      [] f = "price_gte"      -> {Some(1000)}
      [] f = "price_lte"      -> {Some(550)}
      [] f = "stock"          -> {Some(9), Some(0)}
      [] f = "stock_gte"      -> {Some(10)}
      [] f = "stock_lte"      -> {Some(9)}
      [] f = "low_stock"      -> {Some(TRUE), Some(FALSE)}

Supplied(params) == {f \in DOMAIN params : params[f] /= None}

FilterParams ==
    {params \in [name           : {None} \cup ParamValues("name"),
                 name_icontains : {None} \cup ParamValues("name_icontains"),
                 price_gte      : {None} \cup ParamValues("price_gte"),
                 price_lte      : {None} \cup ParamValues("price_lte"),
                 stock          : {None} \cup ParamValues("stock"),
                 stock_gte      : {None} \cup ParamValues("stock_gte"),
                 stock_lte      : {None} \cup ParamValues("stock_lte"),
                 low_stock      : {None} \cup ParamValues("low_stock")] :
        Cardinality(Supplied(params)) <= MaxSupplied}

-----------------------------------------------------------------------------
(* Specifications *)

DoCreateCustomer(emails, phones) ==
    /\ Ready
    /\ \E input \in CustomerInputs(emails, phones), fault \in BOOLEAN :
         CreateCustomer(input, fault)

DoBulkCreateCustomers(emails, phones) ==
    /\ Ready
    /\ \E input \in SeqsUpTo(CustomerInputs(emails, phones), MaxBulk) :
         \E faultAt \in 0..Len(input) :
           BulkCreateCustomers(input, faultAt)

DoCreateProduct(inputs) ==
    /\ Ready
    /\ Len(products) < MaxProducts
    /\ \E raw \in inputs, fault \in BOOLEAN : CreateProduct(raw, fault)

DoCreateOrder ==
    /\ Ready
    /\ Len(orders) < MaxOrders
    /\ \E input \in OrderInputs, fault \in OrderFaults :
         CreateOrder(input, fault)

DoAllProducts ==
    /\ Ready
    /\ \E params \in FilterParams : all_products(params)

(* All four mutations. *)
Next ==
    \/ DoCreateCustomer(FewEmails, FewPhones)
    \/ DoBulkCreateCustomers(FewEmails, {None})
    \/ DoCreateProduct(FewProductInputs)
    \/ DoCreateOrder
    \/ Respond

Spec == Init /\ [][Next]_vars

(* The customer mutations, over the phone formats. *)
NextCustomers ==
    \/ DoCreateCustomer(Emails, Phones)
    \/ DoBulkCreateCustomers(Emails, BulkPhones)
    \/ Respond

SpecCustomers == Init /\ [][NextCustomers]_vars

(* CreateProduct and the filtered product listing. *)
NextProducts ==
    \/ DoCreateProduct(ProductInputs)
    \/ DoAllProducts
    \/ Respond

SpecProducts == Init /\ [][NextProducts]_vars

-----------------------------------------------------------------------------
(* Properties *)

CustomerIds == {customers[i].id : i \in 1..Len(customers)}

ProductIds == {products[i].id : i \in 1..Len(products)}

Links(links, oid) == {l[2] : l \in {x \in links : x[1] = oid}}

ErrorIndexes(errors) == {errors[k].index : k \in 1..Len(errors)}

(* C1: no two stored customers have the same email, whatever sequence of   *)
(* CreateCustomer and BulkCreateCustomers calls led to the state; an item  *)
(* of a bulk list that repeats the email of an earlier item the call       *)
(* created is rejected.                                                    *)
C1_EmailUnique ==
    /\ \A i, j \in 1..Len(customers) :
         customers[i].email = customers[j].email => i = j
    /\ last.op = "BulkCreateCustomers" =>
         \A i, j \in 1..Len(last.input) :
           (/\ i < j
            /\ last.input[i].email = last.input[j].email
            /\ i \notin ErrorIndexes(last.errors))
             => j \in ErrorIndexes(last.errors)

C1_Witness ==
    /\ last.op = "BulkCreateCustomers"
    /\ last.faultAt = 0
    /\ \E i, j \in 1..Len(last.input) :
         /\ i < j
         /\ last.input[i].email = last.input[j].email
         /\ i \notin ErrorIndexes(last.errors)
         /\ j \in ErrorIndexes(last.errors)
    /\ Len(customers) = 2

(* C2: after BulkCreateCustomers returns, the customers of its result are  *)
(* exactly the customers the call added to the store, also when an item    *)
(* fails validation or the storage fails an insert.                        *)
C2_ReturnedAreStored ==
    [][last'.op = "BulkCreateCustomers" =>
         Range(last'.customers) = Range(customers') \ Range(customers)]_vars

(* C3: BulkCreateCustomers handles the items in list order; the counts add *)
(* up to the length of the list and are the lengths of the two result      *)
(* lists; when the storage fails no insert, item i is an error exactly     *)
(* when its email is held by a stored customer or by an item created       *)
(* earlier in the call, or its phone is present and rejected by the        *)
(* format; the error carries the index i and the submitted email; every    *)
(* other item is created, failing items notwithstanding.                   *)
NotIn(E, n) ==
    LET Keep(i) == i \notin E IN SelectSeq([i \in 1..n |-> i], Keep)

C4_FailureLeavesStore ==
    [][(/\ last'.op \in {"CreateCustomer", "CreateProduct", "CreateOrder"}
        /\ ~last'.success)
         => store' = store]_vars

C4_Witness ==
    /\ last.op = "CreateCustomer"
    /\ ~last.success
    /\ last.errors = <<EmailExists>>
    /\ Len(customers) = 1

(* C5: a new order's total_amount is the sum of the prices its linked      *)
(* products have when it is created, and no later call changes a stored    *)
(* order, its links or a stored product.                                   *)
C5_TotalFixedAtCreation ==
    [][/\ Len(orders') >= Len(orders)
       /\ Len(products') >= Len(products)
       /\ \A p \in 1..Len(products) : products'[p] = products[p]
       /\ \A o \in 1..Len(orders') :
            IF o <= Len(orders)
            THEN /\ orders'[o] = orders[o]
                 /\ Links(order_products', o) = Links(order_products, o)
            ELSE orders'[o].total_amount =
                   SumPrices(products, Links(order_products', o))]_vars

C5_Witness ==
    /\ Len(orders) = 2
    /\ Links(order_products, 1) = {1, 2}
    /\ products[1].price /= products[2].price
    /\ orders[1].total_amount = products[1].price + products[2].price
    /\ last.op = "CreateOrder"
    /\ last.success

(* C6: CreateOrder succeeds whenever the customer id exists, the product   *)
(* id list is non-empty and every id in it is the id of a stored product   *)
(* (the storage failing nothing), a list that repeats a stored product     *)
(* included; the products-not-found error is given only when some id of    *)
(* the list is not a stored product's.                                     *)
C6_OrderAccepted ==
    last.op = "CreateOrder" =>
      /\ (/\ last.fault = "none"
          /\ last.input.customer_id \in CustomerIds
          /\ Len(last.input.product_ids) > 0
          /\ Range(last.input.product_ids) \subseteq ProductIds)
           => last.success
      /\ last.errors = <<ProductsNotFound>>
           => ~(Range(last.input.product_ids) \subseteq ProductIds)

(* C7: every stored order references one stored customer and a non-empty   *)
(* set of stored products, also after a CreateOrder that failed inside its *)
(* transaction.                                                            *)
C7_OrdersWellFormed ==
    /\ \A o \in 1..Len(orders) :
         /\ orders[o].id = o
         /\ orders[o].customer \in CustomerIds
         /\ Links(order_products, o) /= {}
         /\ Links(order_products, o) \subseteq ProductIds
    /\ \A l \in order_products : l[1] \in 1..Len(orders)

C7_Witness ==
    /\ last.op = "CreateOrder"
    /\ last.fault = "set"
    /\ last.errors = <<StorageError>>
    /\ Len(orders) = 1

(* The two phone formats as the specification words them: `+`, an optional *)
(* `1`, 9 to 15 digits; or NNN-NNN-NNNN.                                   *)
SpecInternational(s) ==
    /\ Len(s) >= 1
    /\ s[1] = "+"
    /\ \E one \in {0, 1} :
         /\ 1 + one <= Len(s)
         /\ one = 1 => s[2] = "1"
         /\ LET rest == SubSeq(s, one + 2, Len(s))
            IN  Len(rest) \in 9..15 /\ AllDigits(rest)

SpecDashed(s) ==
    /\ Len(s) = 12
    /\ \A i \in 1..12 : IF i \in {4, 8} THEN s[i] = "-" ELSE s[i] \in Digits

(* C8: every stored customer's phone is absent or has one of the two       *)
(* formats of the specification; "555-1234" is rejected, "+15551234567"    *)
(* and "555-123-4567" are accepted, an empty phone is stored as absent.    *)
C8_StoredPhoneFormat ==
    /\ \A i \in 1..Len(customers) :
         \/ customers[i].phone = None
         \/ SpecInternational(Val(customers[i].phone))
         \/ SpecDashed(Val(customers[i].phone))
    /\ (last.op = "CreateCustomer" /\ last.errors /= <<EmailExists>>
        /\ ~last.fault) =>
         /\ last.input.phone = Some(Phone_Short) => ~last.success
         /\ last.input.phone \in {Some(Phone_Plus), Some(Phone_Dashed)}
              => last.success
         /\ last.input.phone = Some(<<>>) =>
              last.success /\ Val(last.customer).phone = None

(* C9: every stored product has price > 0 and stock >= 0; CreateProduct    *)
(* with price <= 0 or stock < 0 fails and stores nothing; with price > 0   *)
(* and stock >= 0 (an omitted stock being 0), the storage failing nothing, *)
(* it succeeds and stores exactly one new product with the given values.   *)
C9_ProductBounds ==
    [][last'.op = "CreateProduct" =>
         LET raw   == last'.input
             stock == IF raw.stock.given THEN raw.stock.value ELSE {0}
         IN  /\ (raw.price <= 0 \/ (stock /= {} /\ Val(stock) < 0)) =>
                  ~last'.success /\ products' = products
             /\ (raw.price > 0 /\ stock /= {} /\ Val(stock) >= 0
                 /\ ~last'.fault) =>
                  /\ last'.success
                  /\ Len(products') = Len(products) + 1
                  /\ SubSeq(products', 1, Len(products)) = products
                  /\ products'[Len(products')].name = raw.name
                  /\ products'[Len(products')].price = raw.price
                  /\ products'[Len(products')].stock = Val(stock)
             /\ \A p \in 1..Len(products') :
                  products'[p].price > 0 /\ products'[p].stock >= 0]_vars

C9_Witness ==
    /\ last.op = "CreateProduct"
    /\ last.success
    /\ last.input.stock = Omitted
    /\ Len(products) = 2
    /\ products[2].stock = 0
    /\ products[1].stock = 0
    /\ products[1].price = 550

(* C10: the filtered product list holds exactly the stored products that   *)
(* satisfy every supplied predicate; low_stock=true means stock < 10,      *)
(* low_stock=false and absent parameters restrict nothing; the query       *)
(* leaves the store unchanged.                                             *)
Satisfies(row, params) ==
    /\ \A f \in {"name", "name_icontains"} :
         (params[f] /= {} /\ Val(params[f]) /= <<>>) =>
            \E i \in 1..Len(row.name) :
              /\ i + Len(Val(params[f])) - 1 <= Len(row.name)
              /\ \A k \in 1..Len(Val(params[f])) :
                   LowerChar(row.name[i + k - 1]) = LowerChar(Val(params[f])[k])
    /\ params.price_gte /= {} => row.price >= Val(params.price_gte)
    /\ params.price_lte /= {} => row.price <= Val(params.price_lte)
    /\ params.stock /= {} => row.stock = Val(params.stock)
    /\ params.stock_gte /= {} => row.stock >= Val(params.stock_gte)
    /\ params.stock_lte /= {} => row.stock <= Val(params.stock_lte)
    /\ params.low_stock = {TRUE} => row.stock < 10

C10_FilterIsConjunction ==
    [][last'.op = "all_products" =>
         /\ store' = store
         /\ Range(last'.result) =
              {row \in Range(products) : Satisfies(row, last'.params)}
         /\ \A k, l \in 1..Len(last'.result) :
              k < l => last'.result[k].id < last'.result[l].id]_vars

C10_Witness ==
    /\ last.op = "all_products"
    /\ last.params.low_stock = Some(TRUE)
    /\ last.params.price_gte /= None
    /\ Len(products) = 2
    /\ Len(last.result) = 1
    /\ products[1].stock = 10
    /\ products[2].stock = 9

====
